---- MODULE Spec2Model ----
(***************************************************************************)
(* Model of asyncobj.Helper (helper.go): the lifecycle state machine that  *)
(* coordinates one-shot activation, deferred/scheduled shutdown, the       *)
(* shutdown driver goroutine and the registry of dependent children.       *)
(*                                                                         *)
(* Goroutines are modelled as caller threads plus the goroutines the       *)
(* helper spawns (the shutdown driver and one task per registered child).  *)
(* A step of the model is one code segment between two blocking points: a  *)
(* critical section under h.Lock, a hook invocation or return, a channel   *)
(* receive, or a wait on the wait-group.                                   *)
(***************************************************************************)
EXTENDS Naturals, FiniteSets, Sequences

\* ------------------------------------------------------------------ State
StateUnactivated == 0
StateActivating == 1
StateActivated == 2
StateShuttingDown == 3
StateLocalShutdown == 4
StateShutDown == 5

\* ------------------------------------------------------------ error values
\* the nil error
Nil == "nil"
\* the values the application passes to StartShutdown, LocalShutdown, Shutdown
CompletionErrs == {Nil, "E1"}
\* the values the shutdown hook returns
ShutdownHandlerResults == {Nil, "E2"}
\* errors.New("Shutdown of object already started; cannot SetIsActivated")
ErrCannotActivate == "ErrCannotActivate"
\* errors.New("Cannot activate; shutdown already initiated")
ErrShutdownInitiated == "ErrShutdownInitiated"
\* errors.New("Shutdown already started; cannot defer")
ErrCannotDefer == "ErrCannotDefer"
\* fmt.Errorf("Cannot add ... child ...; StateShutdown already entered")
ErrCannotAddChild == "ErrCannotAddChild"
\* ctx.Err() of a context that is done
CtxErr == "C"
\* errors.New("Cannot SetOnceShutdownHandler after activation")
ErrCannotSetHandler == "ErrCannotSetHandler"
\* the callbacks the application passes to SetOnceShutdownHandler; Nil stands
\* for no callback, when the object's own HandleOnceShutdown is the hook
Handlers == {"cb"}

\* ------------------------------------------------------------------ bounds
\* the goroutines of the application that call into the helper
Threads == {"t1", "t2"}
\* the goroutine started by ShutdownOnContext
Monitor == "monitor"
\* total number of calls the application makes on the helper
MaxCalls == 3
\* number of children the application registers
MaxChildren == 1

VARIABLES
    h,           \* the Helper: its fields, the four chans, h.wg and h.Lock
    pc,          \* position of each caller thread and of the goroutine of ShutdownOnContext
    err,         \* per thread: DoOnceActivate's local err, the value it returns
    waitOnFail,  \* per thread: DoOnceActivate's waitOnFail argument
    held,        \* per thread: successful DeferShutdown calls not yet undeferred
    driver,      \* the goroutine of asyncDoStartedShutdown: position and local shutdownErr
    children,    \* the goroutines of the registered children, in registration order
    calls,       \* number of calls the application has made
    hist         \* history: hook invocations, spawns, values returned to callers

vars == <<h, pc, err, waitOnFail, held, driver, children, calls, hist>>

\* a chan is closed once close() has been called on it (the field counts the calls)
Closed(ch) == ch > 0

\* NewHelperWithShutdownHandler
Init ==
    /\ h = [state |-> StateUnactivated,
            shutdownDeferCount |-> 0,
            isActivated |-> FALSE,
            isScheduledShutdown |-> FALSE,
            shutdownErr |-> Nil,
            shutdownHandler |-> Nil,
            activatingDoneChan |-> 0,
            shutdownStartedChan |-> 0,
            localShutdownDoneChan |-> 0,
            shutdownDoneChan |-> 0,
            wg |-> 0,
            Lock |-> "free"]
    /\ pc = [g \in Threads \cup {Monitor} |-> IF g = Monitor THEN "none" ELSE "idle"]
    /\ err = [t \in Threads |-> Nil]
    /\ waitOnFail = [t \in Threads |-> FALSE]
    /\ held = [t \in Threads |-> 0]
    /\ driver = [pc |-> "none", shutdownErr |-> Nil]
    /\ children = <<>>
    /\ calls = 0
    /\ hist = [activateHookCalls |-> 0,
               shutdownHookCalls |-> 0,
               driverSpawns |-> 0,
               shutdownErrWrites |-> 0,
               startShutdownCalls |-> 0,
               firstErr |-> Nil,
               hookArg |-> Nil,
               waitReturns |-> {},
               waitReturnCount |-> 0,
               activateReturns |-> {},
               fatals |-> 0,
               firstReturns |-> 0,
               deferReturns |-> {},
               attemptsWhileScheduled |-> 0,
               activateHookResult |-> "none",
               addReturns |-> {},
               hookHandler |-> "none",
               setHandlerStates |-> {}]

\* a thread that is not inside a call may make another one
CanCall(t) == pc[t] = "idle" /\ calls < MaxCalls

\* h.lg.Panic(...) reached with h.Lock held and no deferred Unlock: the
\* goroutine t unwinds and the mutex stays locked
lockedPanic(t) ==
    /\ h' = [h EXCEPT !.Lock = t]
    /\ pc' = [pc EXCEPT ![t] = "panicked"]
    /\ hist' = [hist EXCEPT !.fatals = @ + 1]
    /\ UNCHANGED driver

\* --------------------------------------------------------- state changes
\* a lockedEnterShuttingDownState that leaves shutdownStartedChan open
lockedEnterShuttingDownState_NoClose(hh) ==
    [hh EXCEPT !.state = StateShuttingDown,
               !.activatingDoneChan = IF hh.state < StateActivated THEN @ + 1 ELSE @]

\* a lockedEnterShuttingDownState that closes activatingDoneChan whatever the old state
lockedEnterShuttingDownState_AlwaysClose(hh) ==
    [hh EXCEPT !.state = StateShuttingDown,
               !.activatingDoneChan = @ + 1,
               !.shutdownStartedChan = @ + 1]

\* lockedEnterShuttingDownState
lockedEnterShuttingDownState(hh) ==
    [hh EXCEPT !.state = StateShuttingDown,
               !.activatingDoneChan = IF hh.state < StateActivated THEN @ + 1 ELSE @,
               !.shutdownStartedChan = @ + 1]

\* an asyncDoStartedShutdown called outside the test of doShutdownNow
asyncDoStartedShutdown_Always(doShutdownNow) == [pc |-> "spawned", shutdownErr |-> Nil]

\* asyncDoStartedShutdown: the go statement; the goroutine's body is the Driver* actions
asyncDoStartedShutdown(doShutdownNow) ==
    IF doShutdownNow THEN [pc |-> "spawned", shutdownErr |-> Nil] ELSE driver

\* a SetIsActivated that does not test for a shutdown already started
ShutdownAlreadyInitiated_Untested(hh) == FALSE

\* SetIsActivated: the test that refuses activation once shutdown has started
ShutdownAlreadyInitiated(hh) == hh.state >= StateShuttingDown

\* SetIsActivated: the error it returns
SetIsActivatedErr(hh) ==
    IF ~hh.isActivated /\ ShutdownAlreadyInitiated(hh) THEN ErrShutdownInitiated ELSE Nil

\* a SetIsActivated that sets the flag and leaves the state where it is
lockedSetIsActivated_FlagOnly(hh) ==
    IF ~hh.isActivated /\ ~ShutdownAlreadyInitiated(hh)
    THEN [hh EXCEPT !.isActivated = TRUE,
                    !.activatingDoneChan = @ + 1]
    ELSE hh

\* SetIsActivated: the critical section
lockedSetIsActivated(hh) ==
    IF ~hh.isActivated /\ ~ShutdownAlreadyInitiated(hh)
    THEN [hh EXCEPT !.isActivated = TRUE,
                    !.state = StateActivated,
                    !.activatingDoneChan = @ + 1]
    ELSE hh

\* a StartShutdown that takes every call for the first one
IsFirst_Always(hh) == TRUE

\* StartShutdown: isFirst
IsFirst(hh) == ~hh.isScheduledShutdown

\* a StartShutdown that computes doShutdownNow outside the isFirst branch
StartDoShutdownNow_EveryCall(hh) == hh.shutdownDeferCount = 0

\* a StartShutdown that starts shutdown whatever the deferral count
StartDoShutdownNow_IgnoreDefer(hh) == IsFirst(hh)

\* StartShutdown: doShutdownNow, computed when isFirst
StartDoShutdownNow(hh) == IsFirst(hh) /\ hh.shutdownDeferCount = 0

\* a StartShutdown that stores completionErr outside the isFirst branch
StartShutdownErr_EveryCall(hh, completionErr) == completionErr

\* StartShutdown: the value of h.shutdownErr it leaves
StartShutdownErr(hh, completionErr) ==
    IF IsFirst(hh) THEN completionErr ELSE hh.shutdownErr

\* StartShutdown: the critical section
lockedStartShutdown(hh, completionErr) ==
    LET h0 == [hh EXCEPT !.shutdownErr = StartShutdownErr(hh, completionErr)]
        h1 == [h0 EXCEPT !.isScheduledShutdown = TRUE]
    IN  IF IsFirst(hh)
        THEN IF StartDoShutdownNow(hh) THEN lockedEnterShuttingDownState(h1) ELSE h1
        ELSE h0

\* StartShutdown, run by thread t, which then continues at next
StartShutdown(t, completionErr, next) ==
    /\ h.Lock = "free"
    /\ IF IsFirst(h) /\ h.state >= StateShuttingDown
       THEN lockedPanic(t)
       ELSE /\ h' = lockedStartShutdown(h, completionErr)
            /\ driver' = asyncDoStartedShutdown(StartDoShutdownNow(h))
            /\ pc' = [pc EXCEPT ![t] = next]
            /\ hist' = [hist EXCEPT
                 !.startShutdownCalls = @ + 1,
                 !.firstReturns = IF IsFirst(h) THEN @ + 1 ELSE @,
                 !.firstErr = IF ~h.isScheduledShutdown THEN completionErr ELSE @,
                 !.shutdownErrWrites =
                     IF ~h.isScheduledShutdown \/ h'.shutdownErr # h.shutdownErr
                     THEN @ + 1 ELSE @,
                 !.driverSpawns = IF StartDoShutdownNow(h) THEN @ + 1 ELSE @]

\* an UndeferShutdown that starts a scheduled shutdown on every decrement
UndeferDoShutdownNow_AnyCount(hh, count) ==
    hh.isScheduledShutdown /\ hh.state < StateShuttingDown

\* an UndeferShutdown that never starts the scheduled shutdown
UndeferDoShutdownNow_Never(hh, count) == FALSE

\* an UndeferShutdown that does not test whether shutdown is scheduled
UndeferDoShutdownNow_Unscheduled(hh, count) ==
    count = 0 /\ hh.state < StateShuttingDown

\* UndeferShutdown: doShutdownNow, from the decremented count
UndeferDoShutdownNow(hh, count) ==
    count = 0 /\ hh.isScheduledShutdown /\ hh.state < StateShuttingDown

\* UndeferShutdown: the critical section
lockedUndeferShutdown(hh) ==
    LET h1 == [hh EXCEPT !.shutdownDeferCount = @ - 1]
    IN  IF UndeferDoShutdownNow(hh, h1.shutdownDeferCount)
        THEN lockedEnterShuttingDownState(h1)
        ELSE h1

\* an UndeferShutdown that decrements without testing the count
UndeferMisuse_Untested(hh) == FALSE

\* UndeferShutdown: the test for a call with no deferral outstanding
UndeferMisuse(hh) == hh.shutdownDeferCount < 1

\* UndeferShutdown, run by thread t, which then continues at next
UndeferShutdown(t, next) ==
    /\ h.Lock = "free"
    /\ IF UndeferMisuse(h)
       THEN lockedPanic(t)
       ELSE /\ h' = lockedUndeferShutdown(h)
            /\ driver' = asyncDoStartedShutdown(
                   UndeferDoShutdownNow(h, h.shutdownDeferCount - 1))
            /\ pc' = [pc EXCEPT ![t] = next]
            /\ hist' = [hist EXCEPT !.driverSpawns =
                   IF UndeferDoShutdownNow(h, h.shutdownDeferCount - 1)
                   THEN @ + 1 ELSE @]

\* ==================================================== calls of the threads
\* a DeferShutdown that still accepts a deferral in StateShuttingDown
DeferRefused_OffByOne(hh) == hh.state > StateShuttingDown

\* DeferShutdown: the test that refuses the deferral
DeferRefused(hh) == hh.state >= StateShuttingDown

\* DeferShutdown: the error it returns
DeferShutdownErr(hh) == IF DeferRefused(hh) THEN ErrCannotDefer ELSE Nil

\* DeferShutdown
DeferShutdown(t) ==
    /\ CanCall(t)
    /\ h.Lock = "free"
    /\ IF DeferRefused(h)
       THEN UNCHANGED <<h, held>>
       ELSE /\ h' = [h EXCEPT !.shutdownDeferCount = @ + 1]
            /\ held' = [held EXCEPT ![t] = @ + 1]
    /\ calls' = calls + 1
    /\ hist' = [hist EXCEPT !.deferReturns = @ \cup {DeferShutdownErr(h)}]
    /\ UNCHANGED <<pc, err, waitOnFail, driver, children>>

\* a SetOnceShutdownHandler that refuses as soon as activation has begun
SetHandlerRefused_FromActivating(hh) == hh.state >= StateActivating

\* SetOnceShutdownHandler: the test that refuses the call
SetHandlerRefused(hh) == hh.state >= StateActivated

\* SetOnceShutdownHandler: the error it returns
SetHandlerErr(hh) == IF SetHandlerRefused(hh) THEN ErrCannotSetHandler ELSE Nil

\* SetOnceShutdownHandler
SetOnceShutdownHandler(t, callback) ==
    /\ CanCall(t)
    /\ h.Lock = "free"
    /\ h' = IF SetHandlerRefused(h) THEN h ELSE [h EXCEPT !.shutdownHandler = callback]
    /\ hist' = [hist EXCEPT !.setHandlerStates =
           IF SetHandlerRefused(h) THEN @ ELSE @ \cup {h.state}]
    /\ calls' = calls + 1
    /\ UNCHANGED <<pc, err, waitOnFail, held, driver, children>>

\* UndeferShutdown called by the application: to release a deferral the thread
\* took with DeferShutdown, or (the misuse the code reports) with no deferral
\* outstanding at all
CallUndeferShutdown(t) ==
    /\ CanCall(t)
    /\ held[t] > 0 \/ h.shutdownDeferCount = 0
    /\ UndeferShutdown(t, "idle")
    /\ held' = [held EXCEPT ![t] = IF @ > 0 THEN @ - 1 ELSE @]
    /\ calls' = calls + 1
    /\ UNCHANGED <<err, waitOnFail, children>>

\* SetIsActivated called by the application
SetIsActivated(t) ==
    /\ CanCall(t)
    /\ h.Lock = "free"
    /\ h' = lockedSetIsActivated(h)
    /\ calls' = calls + 1
    /\ UNCHANGED <<pc, err, waitOnFail, held, driver, children, hist>>

\* StartShutdown called by the application
CallStartShutdown(t, completionErr) ==
    /\ CanCall(t)
    /\ StartShutdown(t, completionErr, "idle")
    /\ calls' = calls + 1
    /\ UNCHANGED <<err, waitOnFail, held, children>>

\* LocalShutdown: StartShutdown, then WaitLocalShutdown
LocalShutdown(t, completionError) ==
    /\ CanCall(t)
    /\ StartShutdown(t, completionError, "WaitLocalShutdown")
    /\ calls' = calls + 1
    /\ UNCHANGED <<err, waitOnFail, held, children>>

\* Shutdown: StartShutdown, then WaitShutdown
Shutdown(t, completionError) ==
    /\ CanCall(t)
    /\ StartShutdown(t, completionError, "WaitShutdown")
    /\ calls' = calls + 1
    /\ UNCHANGED <<err, waitOnFail, held, children>>

\* Close
Close(t) == Shutdown(t, Nil)

\* WaitLocalShutdown, WaitShutdown called by the application: the thread blocks on the chan
CallWait(t, which) ==
    /\ CanCall(t)
    /\ pc' = [pc EXCEPT ![t] = which]
    /\ calls' = calls + 1
    /\ UNCHANGED <<h, err, waitOnFail, held, driver, children, hist>>

\* WaitLocalShutdown: <-h.localShutdownDoneChan; return h.shutdownErr
WaitLocalShutdown(t) ==
    /\ pc[t] = "WaitLocalShutdown"
    /\ Closed(h.localShutdownDoneChan)
    /\ pc' = [pc EXCEPT ![t] = "idle"]
    /\ hist' = [hist EXCEPT !.waitReturns = @ \cup {h.shutdownErr},
                            !.waitReturnCount = @ + 1]
    /\ UNCHANGED <<h, err, waitOnFail, held, driver, children, calls>>

\* WaitShutdown: <-h.shutdownDoneChan; return h.shutdownErr
WaitShutdown(t) ==
    /\ pc[t] = "WaitShutdown"
    /\ Closed(h.shutdownDoneChan)
    /\ pc' = [pc EXCEPT ![t] = "idle"]
    /\ hist' = [hist EXCEPT !.waitReturns = @ \cup {h.shutdownErr},
                            !.waitReturnCount = @ + 1]
    /\ UNCHANGED <<h, err, waitOnFail, held, driver, children, calls>>

\* ====================================================== ShutdownOnContext
\* ShutdownOnContext: the go statement; "none" is no goroutine, one that ended
\* included, and one context is watched at a time
ShutdownOnContext(t) ==
    /\ CanCall(t)
    /\ pc[Monitor] = "none"
    /\ pc' = [pc EXCEPT ![Monitor] = "select"]
    /\ calls' = calls + 1
    /\ UNCHANGED <<h, err, waitOnFail, held, driver, children, hist>>

\* select: case <-h.shutdownStartedChan
MonitorShutdownStarted ==
    /\ pc[Monitor] = "select"
    /\ Closed(h.shutdownStartedChan)
    /\ pc' = [pc EXCEPT ![Monitor] = "none"]
    /\ UNCHANGED <<h, err, waitOnFail, held, driver, children, calls, hist>>

\* select: case <-ctx.Done(); the context is done, at the call already or
\* by a cancellation or a timeout since, and the select takes its case
MonitorCtxDone ==
    /\ pc[Monitor] = "select"
    /\ pc' = [pc EXCEPT ![Monitor] = "StartShutdown"]
    /\ UNCHANGED <<h, err, waitOnFail, held, driver, children, calls, hist>>

\* a goroutine that ends without the call
MonitorStartShutdown_NoCall ==
    /\ pc[Monitor] = "StartShutdown"
    /\ pc' = [pc EXCEPT ![Monitor] = "none"]
    /\ UNCHANGED <<h, err, waitOnFail, held, driver, children, calls, hist>>

\* h.StartShutdown(ctx.Err()), after which the goroutine ends
MonitorStartShutdown ==
    /\ pc[Monitor] = "StartShutdown"
    /\ StartShutdown(Monitor, CtxErr, "none")
    /\ UNCHANGED <<err, waitOnFail, held, children, calls>>

\* ========================================================= DoOnceActivate
\* the errors an activation hook may return
ActivateErrs == {"E1"}

\* a DoOnceActivate that does not wait for an activation in progress
ActivationInProgress_Ignored(hh) == FALSE

\* DoOnceActivate: the test that sends the caller to wait for an activation in progress
ActivationInProgress(hh) == hh.state = StateActivating

\* a DoOnceActivate that lets activation begin in StateShuttingDown
ActivationBlocked_OffByOne(hh) == hh.state > StateShuttingDown

\* a DoOnceActivate that refuses activation as soon as shutdown is scheduled
ActivationBlocked_Scheduled(hh) == hh.isScheduledShutdown

\* DoOnceActivate: the test that shutdown has already started
ActivationBlocked(hh) == hh.state >= StateShuttingDown

\* a DoOnceActivate that returns the value of WaitShutdown as it is
BlockedErr_Unreplaced(e) == e

\* DoOnceActivate, shutdown already started: the error returned, given the
\* value err holds after the optional WaitShutdown
BlockedErr(e) == IF e = Nil THEN ErrCannotActivate ELSE e

\* the return statements of DoOnceActivate: the two early-outs for an
\* activated helper, the one after a shutdown already started, the last one
DoaReturns == {"doa_returnActivated", "doa_returnBlocked", "doa_return"}

\* DoOnceActivate: the second part of the first critical section, from the
\* second test of h.isActivated to the Unlock; also the critical section
\* entered after <-h.activatingDoneChan
\* a critical section left without h.Lock.Unlock()
UnlockBeforeHook_Omitted(t) == t

\* h.Lock.Unlock() at the end of the critical section that begins activation
UnlockBeforeHook(t) == "free"

lockedActivate(t, w) ==
    IF h.isActivated
    THEN /\ pc' = [pc EXCEPT ![t] = "doa_returnActivated"]
         /\ err' = [err EXCEPT ![t] = Nil]
         /\ UNCHANGED <<h, hist>>
    ELSE IF ActivationBlocked(h)
    THEN /\ pc' = [pc EXCEPT ![t] =
                IF w THEN "doa_WaitShutdown" ELSE "doa_returnBlocked"]
         /\ err' = [err EXCEPT ![t] = IF w THEN Nil ELSE BlockedErr(Nil)]
         /\ UNCHANGED <<h, hist>>
    ELSE /\ h' = [h EXCEPT !.shutdownDeferCount = @ + 1,
                           !.state = StateActivating,
                           !.Lock = UnlockBeforeHook(t)]
         /\ pc' = [pc EXCEPT ![t] = "doa_callHook"]
         /\ err' = [err EXCEPT ![t] = Nil]
         /\ hist' = [hist EXCEPT !.attemptsWhileScheduled =
                IF h.isScheduledShutdown THEN @ + 1 ELSE @]

\* DoOnceActivate: the call and the first critical section
DoOnceActivate(t, w) ==
    /\ CanCall(t)
    /\ h.Lock = "free"
    /\ waitOnFail' = [waitOnFail EXCEPT ![t] = w]
    /\ IF ~h.isActivated /\ ActivationInProgress(h)
       THEN /\ pc' = [pc EXCEPT ![t] = "doa_activatingDoneChan"]
            /\ err' = [err EXCEPT ![t] = Nil]
            /\ UNCHANGED <<h, hist>>
       ELSE lockedActivate(t, w)
    /\ calls' = calls + 1
    /\ UNCHANGED <<held, driver, children>>

\* DoOnceActivate: <-h.activatingDoneChan, then the critical section
DoaActivatingDone(t) ==
    /\ pc[t] = "doa_activatingDoneChan"
    /\ Closed(h.activatingDoneChan)
    /\ h.Lock = "free"
    /\ lockedActivate(t, waitOnFail[t])
    /\ UNCHANGED <<waitOnFail, held, driver, children, calls>>

\* DoOnceActivate, shutdown already started and waitOnFail: err = h.WaitShutdown(),
\* replaced by the diagnostic when it is nil
DoaWaitShutdownBlocked(t) ==
    /\ pc[t] = "doa_WaitShutdown"
    /\ Closed(h.shutdownDoneChan)
    /\ err' = [err EXCEPT ![t] = BlockedErr(h.shutdownErr)]
    /\ pc' = [pc EXCEPT ![t] = "doa_returnBlocked"]
    /\ UNCHANGED <<h, waitOnFail, held, driver, children, calls, hist>>

\* DoOnceActivate: the activation hook is invoked
DoaCallHook(t) ==
    /\ pc[t] = "doa_callHook"
    /\ pc' = [pc EXCEPT ![t] = "doa_inHook"]
    /\ hist' = [hist EXCEPT !.activateHookCalls = @ + 1]
    /\ UNCHANGED <<h, err, waitOnFail, held, driver, children, calls>>

\* a DoOnceActivate that calls SetIsActivated whatever the hook returned
DoaAfterHook_ActivateAnyway(e) == "doa_SetIsActivated"

\* DoOnceActivate: where it continues after the activation hook returned e
DoaAfterHook(e) == IF e = Nil THEN "doa_SetIsActivated" ELSE "doa_StartShutdown"

\* DoOnceActivate: the activation hook returns e
DoaHookReturn(t, e) ==
    /\ pc[t] = "doa_inHook"
    /\ err' = [err EXCEPT ![t] = e]
    /\ pc' = [pc EXCEPT ![t] = DoaAfterHook(e)]
    /\ hist' = [hist EXCEPT !.activateHookResult = e]
    /\ UNCHANGED <<h, waitOnFail, held, driver, children, calls>>

\* DoOnceActivate: err = h.SetIsActivated()
DoaSetIsActivated(t) ==
    /\ pc[t] = "doa_SetIsActivated"
    /\ h.Lock = "free"
    /\ h' = lockedSetIsActivated(h)
    /\ err' = [err EXCEPT ![t] = SetIsActivatedErr(h)]
    /\ pc' = [pc EXCEPT ![t] =
           IF SetIsActivatedErr(h) = Nil THEN "doa_UndeferShutdown"
           ELSE "doa_StartShutdown"]
    /\ UNCHANGED <<waitOnFail, held, driver, children, calls, hist>>

\* DoOnceActivate: h.StartShutdown(err)
DoaStartShutdown(t) ==
    /\ pc[t] = "doa_StartShutdown"
    /\ StartShutdown(t, err[t], "doa_UndeferShutdown")
    /\ UNCHANGED <<err, waitOnFail, held, children, calls>>

\* a DoOnceActivate that returns a failure without waiting for shutdown
DoaMustWait_Never(e, w) == FALSE

\* DoOnceActivate: the test that makes it wait for shutdown before it returns
DoaMustWait(e, w) == e # Nil /\ w

\* DoOnceActivate: h.UndeferShutdown()
DoaUndeferShutdown(t) ==
    /\ pc[t] = "doa_UndeferShutdown"
    /\ UndeferShutdown(t,
           IF DoaMustWait(err[t], waitOnFail[t]) THEN "doa_WaitOnFail" ELSE "doa_return")
    /\ UNCHANGED <<err, waitOnFail, held, children, calls>>

\* DoOnceActivate: on error with waitOnFail, h.WaitShutdown(), its value dropped
DoaWaitOnFail(t) ==
    /\ pc[t] = "doa_WaitOnFail"
    /\ Closed(h.shutdownDoneChan)
    /\ pc' = [pc EXCEPT ![t] = "doa_return"]
    /\ UNCHANGED <<h, err, waitOnFail, held, driver, children, calls, hist>>

\* DoOnceActivate returns err to its caller; its locals are gone
DoaReturn(t) ==
    /\ pc[t] \in DoaReturns
    /\ pc' = [pc EXCEPT ![t] = "idle"]
    /\ hist' = [hist EXCEPT !.activateReturns = @ \cup {err[t]}]
    /\ err' = [err EXCEPT ![t] = Nil]
    /\ waitOnFail' = [waitOnFail EXCEPT ![t] = FALSE]
    /\ UNCHANGED <<h, held, driver, children, calls>>

\* ============================ the goroutine of asyncDoStartedShutdown
\* the shutdown hook (h.shutdownHandler or HandleOnceShutdown) is invoked with h.shutdownErr
DriverCallHook ==
    /\ driver.pc = "spawned"
    /\ driver' = [driver EXCEPT !.pc = "inHook"]
    /\ hist' = [hist EXCEPT !.shutdownHookCalls = @ + 1,
                            !.hookArg = h.shutdownErr,
                            !.hookHandler = h.shutdownHandler]
    /\ UNCHANGED <<h, pc, err, waitOnFail, held, children, calls>>

\* the shutdown hook returns r
DriverHookReturn(r) ==
    /\ driver.pc = "inHook"
    /\ driver' = [pc |-> "hookDone", shutdownErr |-> r]
    /\ UNCHANGED <<h, pc, err, waitOnFail, held, children, calls, hist>>

\* a driver that leaves the advisory error in place
DriverShutdownErr_Advisory(hh, d) == hh.shutdownErr

\* the value the driver stores in h.shutdownErr
DriverShutdownErr(hh, d) == d.shutdownErr

\* first critical section of the driver: StateLocalShutdown
DriverLocalShutdown ==
    /\ driver.pc = "hookDone"
    /\ h.Lock = "free"
    /\ h' = [h EXCEPT !.shutdownErr = DriverShutdownErr(h, driver),
                      !.state = StateLocalShutdown,
                      !.localShutdownDoneChan = @ + 1]
    /\ driver' = [driver EXCEPT !.pc = "wgWait"]
    /\ hist' = [hist EXCEPT !.shutdownErrWrites = @ + 1]
    /\ UNCHANGED <<pc, err, waitOnFail, held, children, calls>>

\* h.wg.Wait() returns
DriverWgWait ==
    /\ driver.pc = "wgWait"
    /\ h.wg = 0
    /\ driver' = [driver EXCEPT !.pc = "wgDone"]
    /\ UNCHANGED <<h, pc, err, waitOnFail, held, children, calls, hist>>

\* second critical section of the driver: StateShutDown
DriverShutDown ==
    /\ driver.pc = "wgDone"
    /\ h.Lock = "free"
    /\ h' = [h EXCEPT !.state = StateShutDown,
                      !.shutdownDoneChan = @ + 1]
    /\ driver' = [driver EXCEPT !.pc = "done"]
    /\ UNCHANGED <<pc, err, waitOnFail, held, children, calls, hist>>

\* ================================================== registration of children
\* the kinds of registration: AddShutdownChildChan, AddAsyncShutdownChild,
\* AddSyncCloseChild, ShutdownWGAdd
ChildKinds == {"chan", "async", "close", "wg"}

\* a registration that is still accepted in StateShutDown
RegistrationRefused_Never(hh) == FALSE

\* the test that refuses a registration
RegistrationRefused(hh) == hh.state >= StateShutDown

\* the error a registration returns
RegistrationErr(hh) == IF RegistrationRefused(hh) THEN ErrCannotAddChild ELSE Nil

\* AddShutdownChildChan, AddAsyncShutdownChild, AddSyncCloseChild: the critical
\* section and the go statement; ShutdownWGAdd(1): the critical section, the
\* caller being the one to call Done(); kind is "chan", "async", "close" or "wg"
AddChild(t, kind) ==
    /\ CanCall(t)
    /\ h.Lock = "free"
    /\ IF RegistrationRefused(h)
       THEN UNCHANGED <<h, children>>
       ELSE /\ Len(children) < MaxChildren
            /\ h' = [h EXCEPT !.wg = @ + 1]
            /\ children' = Append(children,
                   [kind |-> kind, pc |-> "wait", released |-> FALSE,
                    advisory |-> "none"])
    /\ calls' = calls + 1
    /\ hist' = [hist EXCEPT !.addReturns = @ \cup {RegistrationErr(h)}]
    /\ UNCHANGED <<pc, err, waitOnFail, held, driver>>

\* the deltas the application passes to ShutdownWGAdd
Deltas == {0, 1}

\* ShutdownWGAdd: a delta <= 0 is refused before h.Lock is taken
ShutdownWGAdd(t, delta) ==
    IF delta <= 0
    THEN /\ CanCall(t)
         /\ calls' = calls + 1
         /\ UNCHANGED <<h, pc, err, waitOnFail, held, driver, children, hist>>
    ELSE AddChild(t, "wg")

AddShutdownChildChan(t) == AddChild(t, "chan")

AddAsyncShutdownChild(t) == AddChild(t, "async")

AddSyncCloseChild(t) == AddChild(t, "close")

\* the child releases: the application closes childDoneChan, the async child's
\* ShutdownDoneChan closes (whoever shut it down), or the child's Close returns
ChildRelease(i) ==
    /\ i \in 1..Len(children)
    /\ children[i].kind # "wg"
    /\ ~children[i].released
    /\ children[i].kind = "close" => children[i].pc = "closing"
    /\ children' = [children EXCEPT ![i].released = TRUE]
    /\ UNCHANGED <<h, pc, err, waitOnFail, held, driver, calls, hist>>

\* a child task that waits for shutdownStartedChan instead
ChildMayShutdown_OnStarted(hh) == Closed(hh.shutdownStartedChan)

\* the task of a child: <-h.localShutdownDoneChan
ChildMayShutdown(hh) == Closed(hh.localShutdownDoneChan)

\* a task that gives the child no advisory error
ChildAdvisory_Nil(hh) == Nil

\* the argument of child.StartShutdown
ChildAdvisory(hh) == hh.shutdownErr

\* the task of a child sees local shutdown done: child.StartShutdown(h.shutdownErr)
\* followed by child.WaitShutdown(), or child.Close()
ChildLocalShutdownDone(i) ==
    /\ i \in 1..Len(children)
    /\ children[i].pc = "wait"
    /\ children[i].kind \in {"async", "close"}
    /\ ChildMayShutdown(h)
    /\ children' = [children EXCEPT
           ![i].pc = IF children[i].kind = "async" THEN "shutting" ELSE "closing",
           ![i].advisory = IF children[i].kind = "async" THEN ChildAdvisory(h) ELSE @]
    /\ UNCHANGED <<h, pc, err, waitOnFail, held, driver, calls, hist>>

\* a child task that calls h.wg.Done() without waiting for the child
ChildIsDone_Unwaited(c) == TRUE

\* what the task of a child waits for before h.wg.Done(): childDoneChan, the
\* child's ShutdownDoneChan or WaitShutdown, the return of Close; nothing for a
\* delta added with ShutdownWGAdd
ChildIsDone(c) == c.released \/ c.kind = "wg"

\* the task of a child sees the child released: h.wg.Done(); for a delta
\* added with ShutdownWGAdd, the Done() its caller makes
ChildWgDone(i) ==
    /\ i \in 1..Len(children)
    /\ children[i].pc \in
         CASE children[i].kind = "chan" -> {"wait"}
           [] children[i].kind = "async" -> {"wait", "shutting"}
           [] children[i].kind = "close" -> {"closing"}
           [] children[i].kind = "wg" -> {"wait"}
    /\ ChildIsDone(children[i])
    /\ h' = [h EXCEPT !.wg = @ - 1]
    /\ children' = [children EXCEPT ![i].pc = "done"]
    /\ UNCHANGED <<pc, err, waitOnFail, held, driver, calls, hist>>

\* ============================================================ specification
Next ==
    \/ \E t \in Threads : DeferShutdown(t)
    \/ \E t \in Threads : CallUndeferShutdown(t)
    \/ \E t \in Threads : SetIsActivated(t)
    \/ \E t \in Threads, cb \in Handlers : SetOnceShutdownHandler(t, cb)
    \/ \E t \in Threads, e \in CompletionErrs : CallStartShutdown(t, e)
    \/ \E t \in Threads, e \in CompletionErrs : LocalShutdown(t, e)
    \/ \E t \in Threads, e \in CompletionErrs : Shutdown(t, e)
    \/ \E t \in Threads : Close(t)
    \/ \E t \in Threads, w \in {"WaitLocalShutdown", "WaitShutdown"} : CallWait(t, w)
    \/ \E t \in Threads : WaitLocalShutdown(t)
    \/ \E t \in Threads : WaitShutdown(t)
    \/ \E t \in Threads, w \in BOOLEAN : DoOnceActivate(t, w)
    \/ \E t \in Threads : DoaActivatingDone(t)
    \/ \E t \in Threads : DoaWaitShutdownBlocked(t)
    \/ \E t \in Threads : DoaCallHook(t)
    \/ \E t \in Threads, e \in {Nil} \cup ActivateErrs : DoaHookReturn(t, e)
    \/ \E t \in Threads : DoaSetIsActivated(t)
    \/ \E t \in Threads : DoaStartShutdown(t)
    \/ \E t \in Threads : DoaUndeferShutdown(t)
    \/ \E t \in Threads : DoaWaitOnFail(t)
    \/ \E t \in Threads : DoaReturn(t)
    \/ DriverCallHook
    \/ \E r \in ShutdownHandlerResults : DriverHookReturn(r)
    \/ DriverLocalShutdown
    \/ DriverWgWait
    \/ DriverShutDown
    \/ \E t \in Threads : AddShutdownChildChan(t)
    \/ \E t \in Threads : AddAsyncShutdownChild(t)
    \/ \E t \in Threads : AddSyncCloseChild(t)
    \/ \E t \in Threads, delta \in Deltas : ShutdownWGAdd(t, delta)
    \/ \E t \in Threads : ShutdownOnContext(t)
    \/ MonitorShutdownStarted
    \/ MonitorCtxDone
    \/ MonitorStartShutdown
    \/ \E i \in 1..MaxChildren : ChildRelease(i)
    \/ \E i \in 1..MaxChildren : ChildLocalShutdownDone(i)
    \/ \E i \in 1..MaxChildren : ChildWgDone(i)

Spec == Init /\ [][Next]_vars

\* ---------------------------------------------------------------- scheduling
\* the steps of the goroutine of asyncDoStartedShutdown
DriverStep ==
    \/ DriverCallHook
    \/ \E r \in ShutdownHandlerResults : DriverHookReturn(r)
    \/ DriverLocalShutdown
    \/ DriverWgWait
    \/ DriverShutDown

\* the steps by which thread t continues a call it is inside of
ThreadStep(t) ==
    \/ WaitLocalShutdown(t)
    \/ WaitShutdown(t)
    \/ DoaActivatingDone(t)
    \/ DoaWaitShutdownBlocked(t)
    \/ DoaCallHook(t)
    \/ \E e \in {Nil} \cup ActivateErrs : DoaHookReturn(t, e)
    \/ DoaSetIsActivated(t)
    \/ DoaStartShutdown(t)
    \/ DoaUndeferShutdown(t)
    \/ DoaWaitOnFail(t)
    \/ DoaReturn(t)

\* the steps of the goroutine of child i, and the release of the child itself
ChildStep(i) ==
    \/ ChildRelease(i)
    \/ ChildLocalShutdownDone(i)
    \/ ChildWgDone(i)

\* the steps the goroutine of ShutdownOnContext takes by itself; whether the
\* context ever is done is up to its owner
MonitorStep ==
    \/ MonitorShutdownStarted
    \/ MonitorStartShutdown

\* the Go scheduler runs every goroutine that can run: the driver, the callers
\* inside a call, the goroutines of the children; hooks return and children
\* release; the application is free to make or not to make further calls
FairSpec ==
    /\ Spec
    /\ WF_vars(DriverStep)
    /\ \A t \in Threads : WF_vars(ThreadStep(t))
    /\ \A i \in 1..MaxChildren : WF_vars(ChildStep(i))
    /\ WF_vars(MonitorStep)

\* ================================================================== claims
\* the seven transitions of the specification
SevenTransitions ==
    {<<StateUnactivated, StateActivating>>, <<StateUnactivated, StateShuttingDown>>,
     <<StateActivating, StateActivated>>, <<StateActivating, StateShuttingDown>>,
     <<StateActivated, StateShuttingDown>>,
     <<StateShuttingDown, StateLocalShutdown>>, <<StateLocalShutdown, StateShutDown>>}

\* C1: under every interleaving of the operations and the driver, the
\* lifecycle state never decreases: no step takes h.state to a lower value, so
\* a read of state >= S is followed only by reads of state >= S.
C1_StateNeverDecreases == [][h'.state >= h.state]_vars

\* C1 witness: the state has climbed from unactivated through activating and
\* activated to shut-down.
C1_Witness ==
    h.state = StateShutDown /\ h.isActivated /\ hist.activateHookCalls = 1

\* C2 as claimed: every state change is one of the seven transitions
\* 0->1, 0->3, 1->2, 1->3, 2->3, 3->4, 4->5 (in particular never 0->2).
C2_OnlySevenTransitions ==
    [][h'.state = h.state \/ <<h.state, h'.state>> \in SevenTransitions]_vars

\* C2 amended: every state change is one of the seven transitions or
\* unactivated -> activated, and the latter is made only by a direct call of
\* SetIsActivated on an unactivated helper (never by DoOnceActivate).
C2_LegalTransitions ==
    [][/\ \/ h'.state = h.state
          \/ <<h.state, h'.state>> \in
                 SevenTransitions \cup {<<StateUnactivated, StateActivated>>}
       /\ (h.state = StateUnactivated /\ h'.state = StateActivated)
              => \E t \in Threads : SetIsActivated(t)]_vars

\* C2 witness: the helper is activated and no activation hook ever ran: the
\* state went from unactivated straight to activated.
C2_Witness == h.state = StateActivated /\ hist.activateHookCalls = 0

\* C3: the shutdown hook is invoked at most once and the shutdown driver is
\* spawned at most once, however many times shutdown is scheduled.
C3_ShutdownHookAtMostOnce ==
    hist.shutdownHookCalls <= 1 /\ hist.driverSpawns <= 1

\* C3 witness: StartShutdown has run several times and the hook was invoked once.
C3_Witness == hist.startShutdownCalls >= 2 /\ hist.shutdownHookCalls = 1

\* C4: the activation hook is invoked at most once, also when its first
\* invocation returned an error.
C4_ActivateHookAtMostOnce == hist.activateHookCalls <= 1

\* C4 witness: the hook ran once and failed, its caller returned the error and
\* another DoOnceActivate caller has returned too.
C4_Witness ==
    /\ hist.activateHookCalls = 1
    /\ "E1" \in hist.activateReturns
    /\ ErrCannotActivate \in hist.activateReturns

\* C5: while the deferral count is positive the state is below shutting-down.
C5_DeferredNotShuttingDown ==
    h.shutdownDeferCount > 0 => h.state < StateShuttingDown

\* C5 witness: shutdown is scheduled and held off by an outstanding deferral.
C5_Witness ==
    h.isScheduledShutdown /\ h.shutdownDeferCount > 0 /\ h.state < StateShuttingDown

\* C6: while the shutdown hook runs the deferral count is 0, no activation
\* hook is executing and the activation-done signal is closed.
C6_ShutdownHookNotWhileDeferred ==
    driver.pc = "inHook" =>
        /\ h.shutdownDeferCount = 0
        /\ \A t \in Threads : pc[t] # "doa_inHook"
        /\ Closed(h.activatingDoneChan)

\* C6 witness: the shutdown hook is running after an activation hook has run.
C6_Witness == driver.pc = "inHook" /\ hist.activateHookCalls = 1

\* C7: whenever the shutdown-done signal is closed, every child whose
\* registration succeeded has released.
C7_ShutdownDoneChildrenReleased ==
    Closed(h.shutdownDoneChan) =>
        \A i \in 1..Len(children) : children[i].released

\* C8: every value returned by WaitLocalShutdown, WaitShutdown, LocalShutdown,
\* Shutdown and Close is the value the single shutdown hook invocation
\* returned, and that invocation received the first scheduler's advisory error.
C8_WaitersGetHookReturn ==
    \A v \in hist.waitReturns :
        /\ hist.shutdownHookCalls = 1
        /\ v = driver.shutdownErr
        /\ hist.hookArg = hist.firstErr

\* C8 witness: two waiters have returned, with the hook's return value E2,
\* which differs from the advisory error E1 the hook received.
C8_Witness ==
    /\ hist.waitReturnCount >= 2
    /\ hist.waitReturns = {"E2"}
    /\ hist.hookArg = "E1"

\* C9: h.shutdownErr is written at most twice, and no step changes it once the
\* local-shutdown-done signal is closed.
C9_TerminalErrorFinal ==
    [][/\ hist'.shutdownErrWrites <= 2
       /\ Closed(h.localShutdownDoneChan) => h'.shutdownErr = h.shutdownErr]_vars

\* C9 witness: local shutdown is done, the error was written twice and
\* StartShutdown has been called again with another error.
C9_Witness ==
    /\ Closed(h.localShutdownDoneChan)
    /\ hist.shutdownErrWrites = 2
    /\ hist.startShutdownCalls >= 2
    /\ h.shutdownErr = "E2" /\ hist.firstErr = "E1"

\* C10: all DoOnceActivate callers of a helper whose activation hook ran
\* receive the same outcome.
C10_SameActivateOutcome ==
    hist.activateHookCalls = 1 => Cardinality(hist.activateReturns) <= 1

\* C11: whenever a DoOnceActivate call is at one of its return statements, a
\* nil result implies that isActivated is true, a non-nil result implies that
\* isScheduledShutdown is true, and a non-nil result of a call made with
\* waitOnFail implies that the state is StateShutDown
C11_ActivatePostconditions ==
    \A t \in Threads :
        pc[t] \in DoaReturns =>
            /\ err[t] = Nil => h.isActivated
            /\ err[t] # Nil => h.isScheduledShutdown
            /\ err[t] # Nil /\ waitOnFail[t] => h.state = StateShutDown

\* a call with waitOnFail whose activation hook failed is about to return
C11_Witness ==
    \E t \in Threads :
        /\ pc[t] = "doa_return"
        /\ err[t] \in ActivateErrs
        /\ waitOnFail[t]
        /\ hist.activateHookCalls = 1

\* C12: once StartShutdown has been called, exactly one of the calls made so
\* far has returned true; isScheduledShutdown, once set, is never reset; a
\* call made when shutdown is already scheduled changes nothing in the helper;
\* and the advisory error the shutdown hook is invoked with is the argument of
\* the call that returned true
C12_StartShutdownIdempotent ==
    [][ /\ h.isScheduledShutdown => h'.isScheduledShutdown
        /\ hist'.startShutdownCalls >= 1 => hist'.firstReturns = 1
        /\ (hist'.startShutdownCalls > hist.startShutdownCalls
                /\ h.isScheduledShutdown) => h' = h
        /\ hist'.shutdownHookCalls >= 1 => hist'.hookArg = hist'.firstErr ]_vars

\* StartShutdown was called more than once, one call returned true, and the
\* shutdown hook has been invoked with that call's error
C12_Witness ==
    /\ hist.startShutdownCalls >= 2
    /\ hist.firstReturns = 1
    /\ hist.shutdownHookCalls = 1
    /\ hist.firstErr = "E1"
    /\ hist.hookArg = "E1"

\* C13: in every state in which h.Lock is free, shutdownStartedChan is closed
\* exactly when state >= StateShuttingDown, localShutdownDoneChan exactly when
\* state >= StateLocalShutdown, and shutdownDoneChan exactly when state is
\* StateShutDown
C13_SignalsMatchState ==
    h.Lock = "free" =>
        /\ Closed(h.shutdownStartedChan) <=> h.state >= StateShuttingDown
        /\ Closed(h.localShutdownDoneChan) <=> h.state >= StateLocalShutdown
        /\ Closed(h.shutdownDoneChan) <=> h.state = StateShutDown

\* the helper between its two last states, h.Lock free: two of the three
\* signals closed, the third still open
C13_Witness ==
    /\ h.Lock = "free"
    /\ h.state = StateLocalShutdown
    /\ driver.pc = "wgWait"
    /\ Closed(h.shutdownStartedChan)
    /\ Closed(h.localShutdownDoneChan)
    /\ ~Closed(h.shutdownDoneChan)

\* C14: none of the four chans is ever closed more than once, and
\* activatingDoneChan is closed whenever state >= StateActivated
C14_SignalsClosedOnce ==
    /\ h.activatingDoneChan <= 1
    /\ h.shutdownStartedChan <= 1
    /\ h.localShutdownDoneChan <= 1
    /\ h.shutdownDoneChan <= 1
    /\ h.state >= StateActivated => Closed(h.activatingDoneChan)

\* shutdown has started on a helper that had been activated: activatingDoneChan
\* was closed by SetIsActivated and not again on entering StateShuttingDown
C14_Witness ==
    /\ h.isActivated
    /\ h.state >= StateShuttingDown
    /\ h.activatingDoneChan = 1
    /\ h.shutdownStartedChan = 1

\* C15: the shutdown hook is never invoked while state < StateShuttingDown,
\* and, the driver being scheduled fairly, whenever the state reaches
\* StateShuttingDown the shutdown hook is eventually invoked
C15_ShutdownHookIffShuttingDown ==
    /\ [](hist.shutdownHookCalls > 0 => h.state >= StateShuttingDown)
    /\ (h.state >= StateShuttingDown) ~> (hist.shutdownHookCalls >= 1)

\* the shutdown hook is running in StateShuttingDown
C15_Witness ==
    /\ h.state = StateShuttingDown
    /\ driver.pc = "inHook"
    /\ hist.shutdownHookCalls = 1

C17_ShuttingDownIffScheduledUndeferred ==
    h.Lock = "free" =>
        (h.state >= StateShuttingDown
            <=> h.isScheduledShutdown /\ h.shutdownDeferCount = 0)

\* StateShuttingDown entered by an UndeferShutdown: the activation hook ran and
\* failed, StartShutdown found the deferral of DoOnceActivate outstanding, and
\* the UndeferShutdown of DoOnceActivate has started the shutdown
C17_Witness ==
    /\ h.Lock = "free"
    /\ h.state = StateShuttingDown
    /\ hist.activateHookCalls = 1
    /\ ~h.isActivated
    /\ hist.firstReturns = 1
    /\ h.shutdownDeferCount = 0

\* C18: a DeferShutdown called when state >= StateShuttingDown returns the
\* cannot-defer error and changes neither the helper nor the caller's
\* deferrals, a DeferShutdown called earlier returns nil and adds one to the
\* count, and in every state with state >= StateShuttingDown the count is 0
\* and no thread holds a deferral: a DeferShutdown racing with StartShutdown
\* either fails or holds shutdown off until its UndeferShutdown
C18_DeferRefusedOnceShuttingDown ==
    [][ /\ \A t \in Threads : DeferShutdown(t) =>
              IF h.state >= StateShuttingDown
              THEN /\ DeferShutdownErr(h) = ErrCannotDefer
                   /\ h' = h
                   /\ held' = held
              ELSE /\ DeferShutdownErr(h) = Nil
                   /\ h'.shutdownDeferCount = h.shutdownDeferCount + 1
                   /\ held'[t] = held[t] + 1
        /\ h'.state >= StateShuttingDown =>
              /\ h'.shutdownDeferCount = 0
              /\ \A t \in Threads : held'[t] = 0 ]_vars

\* a DeferShutdown called after shutdown had started has been refused
C18_Witness ==
    /\ ErrCannotDefer \in hist.deferReturns
    /\ h.state >= StateShuttingDown
    /\ h.shutdownDeferCount = 0
    /\ hist.firstReturns = 1

\* C19 as stated: a DoOnceActivate that finds the helper not activated and
\* state >= StateShuttingDown returns the cannot-activate diagnostic, with
\* waitOnFail false and with waitOnFail true
C19_BlockedReturnsDiagnostic ==
    \A t \in Threads :
        pc[t] = "doa_returnBlocked" => err[t] = ErrCannotActivate

\* C19: a DoOnceActivate that finds the helper not activated and
\* state >= StateShuttingDown returns a non-nil error: with waitOnFail false
\* the cannot-activate diagnostic; with waitOnFail true it returns in
\* StateShutDown, and returns the value the shutdown hook returned when that
\* is not nil, the cannot-activate diagnostic when it is nil
C19_BlockedReturnsTerminalOrDiagnostic ==
    \A t \in Threads :
        pc[t] = "doa_returnBlocked" =>
            /\ ~h.isActivated
            /\ h.state >= StateShuttingDown
            /\ err[t] # Nil
            /\ ~waitOnFail[t] => err[t] = ErrCannotActivate
            /\ waitOnFail[t] =>
                  /\ h.state = StateShutDown
                  /\ err[t] = IF driver.shutdownErr = Nil
                              THEN ErrCannotActivate ELSE driver.shutdownErr

\* a DoOnceActivate called with waitOnFail after shutdown had started is about
\* to return the error the shutdown hook returned
C19_Witness ==
    \E t \in Threads :
        /\ pc[t] = "doa_returnBlocked"
        /\ waitOnFail[t]
        /\ err[t] = "E2"
        /\ h.shutdownErr = "E2"
        /\ hist.activateHookCalls = 0

\* C20 as stated: the activation hook is not invoked when shutdown was
\* scheduled (StartShutdown had returned true) before the activation attempt
\* began, even if the shutdown was still held off by a deferral
C20_NoHookOnceScheduled ==
    hist.attemptsWhileScheduled > 0 => hist.activateHookCalls = 0

\* C20: the activation hook is invoked at most once, and never once state >=
\* StateShuttingDown; a DoOnceActivate call begins the activation attempt, and
\* then invokes the hook, exactly when it finds the helper not activated and
\* in StateUnactivated, whether or not shutdown is already scheduled; a call
\* that waited for an activation already begun never invokes it
C20_HookUnlessStartedOrBegun ==
    [][ /\ hist'.activateHookCalls <= 1
        /\ h.state >= StateShuttingDown =>
              hist'.activateHookCalls = hist.activateHookCalls
        /\ \A t \in Threads, w \in BOOLEAN : DoOnceActivate(t, w) =>
              (pc'[t] = "doa_callHook"
                  <=> ~h.isActivated /\ h.state = StateUnactivated)
        /\ \A t \in Threads : DoaActivatingDone(t) => pc'[t] # "doa_callHook"
        /\ \A t \in Threads : pc[t] = "doa_callHook" /\ pc'[t] # pc[t] =>
              hist'.activateHookCalls = hist.activateHookCalls + 1
        /\ hist'.activateHookCalls > hist.activateHookCalls =>
              \E t \in Threads : pc[t] = "doa_callHook" ]_vars

\* the activation hook is running in an attempt that began after StartShutdown
\* had returned true, the shutdown being held off by a deferral
C20_Witness ==
    \E t \in Threads :
        /\ pc[t] = "doa_inHook"
        /\ hist.attemptsWhileScheduled = 1
        /\ hist.activateHookCalls = 1
        /\ hist.firstReturns = 1
        /\ \E u \in Threads : held[u] > 0

C22_ActivatedIsLatch ==
    [][ /\ h.isActivated => h'.isActivated
        /\ h'.isActivated => h'.state >= StateActivated
        /\ (h.state >= StateShuttingDown /\ ~h.isActivated) => ~h'.isActivated
        /\ \A t \in Threads :
              (SetIsActivated(t) /\ h.state >= StateShuttingDown /\ ~h.isActivated)
              => (SetIsActivatedErr(h) = ErrShutdownInitiated /\ h' = h) ]_vars

\* the helper was activated and has shut down: the flag is still set
C22_Witness ==
    /\ h.isActivated
    /\ h.state = StateShutDown
    /\ Closed(h.shutdownDoneChan)

\* C23: when the DoOnceActivate call that ran the activation hook, made with
\* waitOnFail false, is at its return statement, activatingDoneChan is closed,
\* so that no other caller is still waiting for the activation to finish
C23_ActivatingDoneAtReturn ==
    \A t \in Threads :
        (pc[t] = "doa_return" /\ ~waitOnFail[t]) => Closed(h.activatingDoneChan)

\* C24: a registration (AddShutdownChildChan, AddAsyncShutdownChild,
\* AddSyncCloseChild, ShutdownWGAdd with a positive delta) made in
\* StateShutDown returns an error, leaves h.wg as it is and starts no
\* goroutine; made in any lower state it returns nil, adds one to h.wg and
\* records the child
C24_RegistrationRefusedOnceShutDown ==
    [][ \A t \in Threads, kind \in ChildKinds : AddChild(t, kind) =>
          IF h.state = StateShutDown
          THEN /\ RegistrationErr(h) = ErrCannotAddChild
               /\ h' = h
               /\ children' = children
          ELSE /\ RegistrationErr(h) = Nil
               /\ h'.wg = h.wg + 1
               /\ Len(children') = Len(children) + 1
               /\ children'[Len(children')].kind = kind
               /\ children'[Len(children')].pc = "wait" ]_vars

\* a registration made after shutdown completed has been refused
C24_Witness ==
    /\ ErrCannotAddChild \in hist.addReturns
    /\ h.state = StateShutDown
    /\ h.wg = 0
    /\ children = <<>>

\* C25: the task of an async child has called child.StartShutdown, and that
\* of a close child child.Close, only when localShutdownDoneChan is closed
\* and the shutdown hook has returned; the advisory error given to an async
\* child is the value the shutdown hook returned, which is h.shutdownErr; and
\* no step of a child's task changes h.shutdownErr
C25_ChildrenAfterLocalShutdown ==
    /\ [](\A i \in 1..Len(children) :
            (children[i].pc \in {"shutting", "closing"}
                \/ children[i].advisory # "none") =>
                  /\ Closed(h.localShutdownDoneChan)
                  /\ driver.pc \in {"wgWait", "wgDone", "done"}
                  /\ children[i].kind = "async" =>
                        /\ children[i].advisory = driver.shutdownErr
                        /\ children[i].advisory = h.shutdownErr)
    /\ [][ \A i \in 1..MaxChildren :
             ChildStep(i) => h'.shutdownErr = h.shutdownErr ]_vars

\* shutdown was scheduled with E1, the hook returned E2, and the task of an
\* async child has called child.StartShutdown(E2)
C25_Witness ==
    \E i \in 1..Len(children) :
        /\ children[i].kind = "async"
        /\ children[i].pc = "shutting"
        /\ children[i].advisory = "E2"
        /\ hist.firstErr = "E1"

\* C26: h.wg is the number of registered children whose task has not yet
\* called h.wg.Done(), so that it is never negative, N registrations make N
\* additions and, once every child is done, N decrements; and the task of a
\* child has called h.wg.Done() only after the child released (its done chan
\* closed, or its Close returned)
C26_WaitGroupBalanced ==
    /\ h.wg >= 0
    /\ h.wg = Cardinality({i \in 1..Len(children) : children[i].pc # "done"})
    /\ \A i \in 1..Len(children) :
          (children[i].pc = "done" /\ children[i].kind # "wg")
              => children[i].released

\* a child was registered, has released, and its task has called h.wg.Done()
C26_Witness ==
    /\ Len(children) >= 1
    /\ \A i \in 1..Len(children) :
          /\ children[i].kind \in {"chan", "async", "close"}
          /\ children[i].pc = "done"
    /\ h.wg = 0

\* the DoOnceActivate calls that hold the deferral taken for the activation
ActivationDeferrals ==
    {t \in Threads : pc[t] \in {"doa_callHook", "doa_inHook", "doa_SetIsActivated",
                                "doa_StartShutdown", "doa_UndeferShutdown"}}

\* C28: shutdownDeferCount is never negative and equals the number of
\* successful DeferShutdown calls not yet undeferred plus the number of
\* activations in progress; an UndeferShutdown called when the count is 0 is
\* reported with Panic and changes neither the count, nor the state, nor
\* isScheduledShutdown, and starts no shutdown
C28_DeferCountBalanced ==
    /\ [](/\ h.shutdownDeferCount >= 0
          /\ h.shutdownDeferCount =
                held["t1"] + held["t2"] + Cardinality(ActivationDeferrals))
    /\ [][ \A t \in Threads :
             (CallUndeferShutdown(t) /\ h.shutdownDeferCount = 0) =>
                /\ hist'.fatals = hist.fatals + 1
                /\ h'.shutdownDeferCount = 0
                /\ h'.state = h.state
                /\ h'.isScheduledShutdown = h.isScheduledShutdown
                /\ driver' = driver ]_vars

\* a deferral was taken and released, and a further UndeferShutdown, made
\* with the count at 0, has been reported
C28_Witness ==
    /\ Nil \in hist.deferReturns
    /\ hist.fatals = 1
    /\ h.shutdownDeferCount = 0
    /\ \A t \in Threads : held[t] = 0

\* C30: whenever the state is StateActivating, exactly one DoOnceActivate
\* call has begun the activation and not yet released its deferral, and
\* shutdownDeferCount >= 1
C30_ActivatingMeansHookCallInProgress ==
    h.state = StateActivating =>
        /\ Cardinality(ActivationDeferrals) = 1
        /\ h.shutdownDeferCount >= 1

\* C29 as stated: a SetOnceShutdownHandler called once activation has begun
\* (state >= StateActivating) leaves the installed hook unchanged
C29_HandlerFixedOnceActivating ==
    [][ \A t \in Threads, cb \in Handlers :
          (SetOnceShutdownHandler(t, cb) /\ h.state >= StateActivating)
              => h'.shutdownHandler = h.shutdownHandler ]_vars

\* C29: a SetOnceShutdownHandler called while state < StateActivated (in
\* StateUnactivated or StateActivating) returns nil and installs the callback;
\* called once state >= StateActivated it returns an error and changes
\* nothing; the installed hook never changes while state >= StateActivated,
\* and the hook the driver invokes is the one installed at that moment
C29_HandlerFixedOnceActivated ==
    [][ /\ \A t \in Threads, cb \in Handlers : SetOnceShutdownHandler(t, cb) =>
              IF h.state >= StateActivated
              THEN SetHandlerErr(h) = ErrCannotSetHandler /\ h' = h
              ELSE SetHandlerErr(h) = Nil /\ h'.shutdownHandler = cb
        /\ h.state >= StateActivated => h'.shutdownHandler = h.shutdownHandler
        /\ DriverCallHook => hist'.hookHandler = h.shutdownHandler ]_vars

\* the shutdown hook that was invoked is a callback installed while the
\* state was StateActivating
C29_Witness ==
    /\ hist.setHandlerStates = {StateActivating}
    /\ hist.shutdownHookCalls = 1
    /\ hist.hookHandler = "cb"

C32_MutexReleasedOnEveryPath ==
    h.Lock = "free"

\* ----------------------------------------------------------------------- C31
\* the positions at which a caller or the goroutine of ShutdownOnContext is
\* about to invoke the activation hook, is inside it, or is blocked on a chan
UnlockedPositions ==
    {"doa_callHook", "doa_inHook", "doa_activatingDoneChan",
     "doa_WaitShutdown", "doa_WaitOnFail", "WaitLocalShutdown",
     "WaitShutdown", "select"}

\* a hook or a child operation is in progress, or the driver is in wg.Wait()
HookOrChildOperationInProgress ==
    \/ \E t \in Threads : pc[t] \in {"doa_callHook", "doa_inHook"}
    \/ driver.pc \in {"spawned", "inHook", "wgWait"}
    \/ \E i \in 1..Len(children) : children[i].pc \in {"wait", "shutting", "closing"}

\* C31: no task holds the mutex at a position where it invokes the activation
\* hook or blocks on a chan; and, unless some call has ended in the Panic path
\* that leaves the mutex locked, the mutex is free whenever a hook or a child
\* operation is in progress or the driver waits for the wait group, so that a
\* call to StartShutdown, DeferShutdown or a state query made from there can
\* take it.
C31_MutexNotHeldAcrossHooksAndWaits ==
    /\ \A g \in Threads \cup {Monitor} :
           pc[g] \in UnlockedPositions => h.Lock # g
    /\ (hist.fatals = 0 /\ HookOrChildOperationInProgress) => h.Lock = "free"

\* the activation hook is running while another caller is blocked on
\* activatingDoneChan, a StartShutdown call made meanwhile has gone through,
\* and the mutex is free
C31_Witness ==
    /\ \E t \in Threads : pc[t] = "doa_inHook"
    /\ \E t \in Threads : pc[t] = "doa_activatingDoneChan"
    /\ h.isScheduledShutdown
    /\ h.Lock = "free"

\* ----------------------------------------------------------------------- C33
\* C33 as stated, for a child registered after the driver's h.wg.Wait() has
\* returned (StateLocalShutdown, localShutdownDoneChan closed; a child whose
\* task is not done then can only have been registered since): the task of
\* an async child registered then has called child.StartShutdown when it
\* calls h.wg.Done(). Violated: when the child's ShutdownDoneChan is closed
\* too, the select may take that case and skip the call.
C33_LateChildAlwaysShutDown ==
    [][ \A i \in 1..MaxChildren :
          (/\ driver.pc \in {"wgDone", "done"}
           /\ ChildWgDone(i)
           /\ children[i].kind = "async")
            => children[i].advisory # "none" ]_vars

\* C33 amended: AddAsyncShutdownChild and AddSyncCloseChild made in
\* StateLocalShutdown are accepted (h.wg + 1, a task started) and the task
\* finds localShutdownDoneChan closed, so that its step needs no further
\* event; that step gives an async child h.shutdownErr, which is the value the
\* shutdown hook returned and no longer changes, and calls Close on a close
\* child; the task calls h.wg.Done() only when the child has released, having
\* skipped child.StartShutdown only if the child had already shut down.
C33_LateChildShutDownAtOnce ==
    /\ [][ \A t \in Threads, kind \in {"async", "close"} :
             (AddChild(t, kind) /\ h.state = StateLocalShutdown) =>
                /\ RegistrationErr(h) = Nil
                /\ Len(children') = Len(children) + 1
                /\ h'.wg = h.wg + 1
                /\ children'[Len(children')].pc = "wait"
                /\ Closed(h'.localShutdownDoneChan) ]_vars
    /\ [](\A i \in 1..Len(children) :
            (/\ children[i].kind \in {"async", "close"}
             /\ children[i].pc = "wait"
             /\ Closed(h.localShutdownDoneChan))
              => ENABLED ChildLocalShutdownDone(i))
    /\ [][ \A i \in 1..MaxChildren : ChildLocalShutdownDone(i) =>
             /\ h.state >= StateLocalShutdown
             /\ children[i].kind = "async" =>
                   /\ children'[i].advisory = h.shutdownErr
                   /\ children'[i].advisory = driver.shutdownErr
                   /\ children'[i].pc = "shutting"
             /\ children[i].kind = "close" => children'[i].pc = "closing" ]_vars
    /\ [][ Closed(h.localShutdownDoneChan) => h'.shutdownErr = h.shutdownErr ]_vars
    /\ [][ \A i \in 1..MaxChildren :
             (ChildWgDone(i) /\ children[i].kind \in {"async", "close"}) =>
                /\ children[i].released
                /\ h'.wg = h.wg - 1
                /\ children[i].kind = "close" => children[i].pc = "closing" ]_vars

\* an async child registered after the driver's h.wg.Wait() returned, in
\* StateLocalShutdown, has been given the hook's return E2
C33_Witness ==
    /\ h.state = StateLocalShutdown
    /\ driver.pc = "wgDone"
    /\ \E i \in 1..Len(children) :
          /\ children[i].kind = "async"
          /\ children[i].pc = "shutting"
          /\ children[i].advisory = "E2"

====
